---- MODULE Spec2Model ----
(***************************************************************************)
(* The SMS and TriG language servers: parse-state cache, diagnostics on    *)
(* content change, position-aware snippet completion and dialect mode.     *)
(*                                                                         *)
(* Offsets and token indexes keep the source's 0-based JavaScript values;  *)
(* a text is a sequence of one-character strings, so the character at      *)
(* offset o is text[o + 1] and the token at index i is tokens[i + 1].      *)
(***************************************************************************)
EXTENDS Integers, Sequences, FiniteSets, TLC

(* ------------------------------ bounds -------------------------------- *)

\* Length of the offset space the stand-alone completion scan is checked on.
MaxLen == 4

\* Longest text of the document the SMS server completes in (uri "u1").
MaxDocLen == 2

\* Longest text of every other document.
MaxShortLen == 1

(* ---------------------------- value spaces ---------------------------- *)

URIs == {"u1", "u2"}

\* "k" is a keyword letter, "?" a character outside the standard lexicon,
\* "\n" a line break (the only white space).
Chars == {"k", "?", "\n"}

Max(a, b) == IF a > b THEN a ELSE b
Min(a, b) == IF a < b THEN a ELSE b

TextsOfLen(n) == [1..n -> Chars]
TextsUpTo(max) == UNION {TextsOfLen(n) : n \in 0..max}

(* ----------------------- completion: the scan ------------------------- *)

\* handleCompletion, lines 84-91, scanning forward: selects the first token
\* that qualifies instead of the last one.
RECURSIVE ScanForward(_, _, _)
ScanForward(tokens, index, cursorOffset) ==
  IF index > Len(tokens) - 1 THEN -1
  ELSE IF tokens[index + 1].endOffset + 1 < cursorOffset THEN index
  ELSE ScanForward(tokens, index + 1, cursorOffset)

TokenIndexBeforeCursorForward(tokens, cursorOffset) ==
  ScanForward(tokens, 0, cursorOffset)

\* The loop of lines 85-91: index runs from tokens.length - 1 down to 0 and
\* stops at the first token with endOffset + 1 < cursorOffset.
RECURSIVE ScanBack(_, _, _)
ScanBack(tokens, index, cursorOffset) ==
  IF ~(index > -1) THEN -1
  ELSE IF tokens[index + 1].endOffset + 1 < cursorOffset THEN index
  ELSE ScanBack(tokens, index - 1, cursorOffset)

TokenIndexBeforeCursor(tokens, cursorOffset) ==
  ScanBack(tokens, Len(tokens) - 1, cursorOffset)

(* ------------------- completion: cursor inside a token ---------------- *)

\* Lines 93-99 reading tokens[tokenIndexBeforeCursor] instead of the token
\* after it.
IsCursorInTokenSameIndex(tokens, tokenIndexBeforeCursor, cursorOffset) ==
  LET i == tokenIndexBeforeCursor IN
  IF i \in 0..(Len(tokens) - 1)
  THEN LET t == tokens[i + 1] IN
       /\ t.startOffset <= cursorOffset
       /\ t.endOffset >= cursorOffset
       /\ t.startOffset # t.endOffset
  ELSE FALSE

\* Lines 93-99: tokens[tokenIndexBeforeCursor + 1] is undefined (falsy) past
\* the end of the array; otherwise the three comparisons decide.
IsCursorInToken(tokens, tokenIndexBeforeCursor, cursorOffset) ==
  LET i == tokenIndexBeforeCursor + 1 IN
  IF i \in 0..(Len(tokens) - 1)
  THEN LET tokenAfterTokenBeforeCursor == tokens[i + 1] IN
       /\ tokenAfterTokenBeforeCursor.startOffset <= cursorOffset
       /\ tokenAfterTokenBeforeCursor.endOffset >= cursorOffset
       /\ tokenAfterTokenBeforeCursor.startOffset
            # tokenAfterTokenBeforeCursor.endOffset
  ELSE FALSE

(* ------------------ the parser's content-assist query ----------------- *)

\* The SMS grammar reduced to its top level:
\*   MappingDoc ::= Prefix* Mapping (Semicolon Mapping)*
\* GrammarState is the position reached after a sequence of token types.
RECURSIVE GrammarState(_, _)
GrammarState(state, types) ==
  IF types = <<>> THEN state
  ELSE LET t == Head(types)
           next == CASE state = "start" /\ t = "Prefix" -> "start"
                     [] state = "start" /\ t = "Mapping" -> "clause"
                     [] state = "clause" /\ t = "Semicolon" -> "sep"
                     [] state = "sep" /\ t = "Mapping" -> "clause"
                     [] OTHER -> "dead"
       IN GrammarState(next, Tail(types))

NextTokenTypes(state) ==
  CASE state = "start" -> {"Prefix", "Mapping"}
    [] state = "clause" -> {"Semicolon"}
    [] state = "sep" -> {"Mapping"}
    [] OTHER -> {}

TypesOf(tokens) == [i \in 1..Len(tokens) |-> tokens[i].tokenType]

\* parser.computeContentAssist(ruleName, prefix): the token types that may
\* legally follow the prefix, each wrapped as a completion candidate.
ComputeContentAssist(ruleName, prefix) ==
  IF ruleName = "MappingDoc"
  THEN {[nextTokenType |-> t] :
          t \in NextTokenTypes(GrammarState("start", TypesOf(prefix)))}
  ELSE {}

\* Lines 107-112 slicing up to, but not including, the selected token.
AssistPrefixExclusive(tokens, tokenIndexBeforeCursor) ==
  IF tokenIndexBeforeCursor = -1 THEN <<>>
  ELSE SubSeq(tokens, 1, tokenIndexBeforeCursor)

\* Lines 109-111: the prefix handed to the query.
AssistPrefix(tokens, tokenIndexBeforeCursor) ==
  IF tokenIndexBeforeCursor = -1 THEN <<>>
  ELSE SubSeq(tokens, 1, tokenIndexBeforeCursor + 1)

\* Lines 114-117 testing for the wrong token type.
HasTriggerSemicolon(completions) ==
  \E completion \in completions : completion.nextTokenType = "Semicolon"

\* Lines 114-117: completions.some(c => c.nextTokenType.tokenName === 'Mapping')
HasTrigger(completions) ==
  \E completion \in completions : completion.nextTokenType = "Mapping"

\* Lines 84-137 of handleCompletion on a token array and a cursor offset:
\* what the scan selected, whether the handler bailed out, whether and with
\* which prefix the content-assist query ran, and what the handler returns:
\* nothing at the early return of line 104, the one-item array of line 119,
\* nothing again when it runs off its end at line 137.
CompletionSteps(tokens, cursorOffset) ==
  LET tokenIndexBeforeCursor == TokenIndexBeforeCursor(tokens, cursorOffset)
      isCursorInToken ==
        IsCursorInToken(tokens, tokenIndexBeforeCursor, cursorOffset)
      prefix == AssistPrefix(tokens, tokenIndexBeforeCursor)
      completions == ComputeContentAssist("MappingDoc", prefix)
  IN IF isCursorInToken
     THEN [tokenIndexBeforeCursor |-> tokenIndexBeforeCursor,
           isCursorInToken |-> TRUE,
           assistCalled |-> FALSE,
           prefix |-> <<>>,
           completions |-> {},
           returned |-> "undefined"]
     ELSE [tokenIndexBeforeCursor |-> tokenIndexBeforeCursor,
           isCursorInToken |-> FALSE,
           assistCalled |-> TRUE,
           prefix |-> prefix,
           completions |-> completions,
           returned |-> IF HasTrigger(completions) THEN "item"
                        ELSE "undefined"]

NoSteps ==
  [tokenIndexBeforeCursor |-> -1, isCursorInToken |-> FALSE,
   assistCalled |-> FALSE, prefix |-> <<>>, completions |-> {},
   returned |-> "undefined"]

(* ------------------------- the parser adapter ------------------------- *)
\* The millan parsers are external. They are modelled by a small lexer and
\* a top-level grammar: a maximal run of keyword letters is one token, "?"
\* is a one-character token, line breaks separate tokens. endOffset is the
\* offset of the token's last character (inclusive), as the lexer reports.

Token(type, startOffset, endOffset) ==
  [tokenType |-> type, startOffset |-> startOffset, endOffset |-> endOffset]

\* Index of the last letter of the run of keyword letters starting at i.
RunEnd(text, i) ==
  CHOOSE j \in i..Len(text) :
    /\ \A m \in i..j : text[m] = "k"
    /\ (j = Len(text) \/ text[j + 1] # "k")

RECURSIVE LexFrom(_, _, _, _)
LexFrom(text, i, keywordType, oddType) ==
  IF i > Len(text) THEN <<>>
  ELSE IF text[i] = "\n" THEN LexFrom(text, i + 1, keywordType, oddType)
  ELSE IF text[i] = "?"
       THEN <<Token(oddType, i - 1, i - 1)>>
              \o LexFrom(text, i + 1, keywordType, oddType)
  ELSE LET j == RunEnd(text, i) IN
       <<Token(keywordType, i - 1, j - 1)>>
         \o LexFrom(text, j + 1, keywordType, oddType)

\* SmsParser: keyword runs are the MAPPING keyword, "?" is not in the lexicon.
SmsLex(text) == LexFrom(text, 1, "Mapping", "Unexpected")

\* TrigParser: the 'stardog' mode accepts "?" as a token of the extended
\* dialect, the 'standard' mode does not.
TrigLex(text, mode) ==
  LexFrom(text, 1, "Word",
          IF mode = "stardog" THEN "StardogExt" ELSE "Unexpected")

ParseError(message, startOffset, endOffset) ==
  [message |-> message, startOffset |-> startOffset, endOffset |-> endOffset]

\* Syntactic errors of the SMS grammar: the first token the grammar cannot
\* take, or the end of input where a Mapping is still expected.
SmsSyntaxErrors(text, tokens) ==
  LET types == TypesOf(tokens)
      dead == {n \in 1..Len(types) :
                 GrammarState("start", SubSeq(types, 1, n)) = "dead"}
  IN IF dead # {}
     THEN LET n == CHOOSE m \in dead : \A o \in dead : m <= o IN
          <<ParseError("unexpected token", tokens[n].startOffset,
                       tokens[n].endOffset)>>
     ELSE IF GrammarState("start", types) \in {"start", "sep"}
     THEN <<ParseError("expecting Mapping", Len(text), Len(text))>>
     ELSE <<>>

\* Syntactic errors of the TriG grammar: the first token outside the dialect.
TrigSyntaxErrors(text, tokens) ==
  LET odd == {n \in 1..Len(tokens) : tokens[n].tokenType = "Unexpected"}
  IN IF odd # {}
     THEN LET n == CHOOSE m \in odd : \A o \in odd : m <= o IN
          <<ParseError("unexpected token", tokens[n].startOffset,
                       tokens[n].endOffset)>>
     ELSE <<>>

Cst(ruleName, tokens) == [name |-> ruleName, children |-> tokens]

\* SmsParser.parse(content)
SmsParse(text) ==
  LET tokens == SmsLex(text) IN
  [cst |-> Cst("MappingDoc", tokens), tokens |-> tokens,
   errors |-> SmsSyntaxErrors(text, tokens)]

\* TrigParser.parse(content, mode); the tokens are what parse leaves in
\* parser.input.
TrigParse(text, mode) ==
  LET tokens == TrigLex(text, mode) IN
  [cst |-> Cst("trigDoc", tokens), tokens |-> tokens,
   errors |-> TrigSyntaxErrors(text, tokens)]

(* ----------------------- document coordinates ------------------------- *)
\* TextDocument of vscode-languageserver: offsets are clamped to the text,
\* a position is a line number and a character within the line.

Position(line, character) == [line |-> line, character |-> character]

Clamp(offset, text) == Max(Min(offset, Len(text)), 0)

\* Offsets at which a line starts: 0 and the offset after every line break.
LineOffsets(text) == {0} \cup {i \in 1..Len(text) : text[i] = "\n"}

\* document.positionAt(offset)
PositionAt(text, offset) ==
  LET o == Clamp(offset, text)
      before == {l \in LineOffsets(text) : l <= o}
      lineOffset == CHOOSE l \in before : \A m \in before : m <= l
  IN Position(Cardinality(before) - 1, o - lineOffset)

\* document.offsetAt(position)
OffsetAt(text, position) ==
  LET lineOffsets == LineOffsets(text)
      StartOf(n) == CHOOSE l \in lineOffsets :
                      Cardinality({m \in lineOffsets : m < l}) = n
  IN IF position.line >= Cardinality(lineOffsets) THEN Len(text)
     ELSE IF position.line < 0 THEN 0
     ELSE LET lineOffset == StartOf(position.line)
              nextLineOffset ==
                IF position.line + 1 < Cardinality(lineOffsets)
                THEN StartOf(position.line + 1)
                ELSE Len(text)
          IN Max(Min(lineOffset + position.character, nextLineOffset),
                 lineOffset)

(* ------------------------- the completion item ------------------------ *)

\* Lines 128-131 with the range ending at the cursor: the edit would replace
\* the character before the cursor.
SnippetRangeToCursor(text, cursorOffset) ==
  [start |-> PositionAt(text, cursorOffset - 1),
   end |-> PositionAt(text, cursorOffset)]

\* Lines 128-131: Range.create(positionAt(cursorOffset - 1),
\*                             positionAt(cursorOffset - 1))
SnippetRange(text, cursorOffset) ==
  [start |-> PositionAt(text, cursorOffset - 1),
   end |-> PositionAt(text, cursorOffset - 1)]

\* Lines 120-134: the one item the server knows.
BasicSMS2MappingItem(text, cursorOffset) ==
  [label |-> "basicSMS2Mapping",
   insertTextFormat |-> "Snippet",
   textEdit |-> [range |-> SnippetRange(text, cursorOffset),
                 newText |-> "sms2Snippets.basicSMS2Mapping"]]

Undefined == [defined |-> FALSE, items |-> <<>>]
Items(items) == [defined |-> TRUE, items |-> items]

(* ----------------------- diagnostics translators ---------------------- *)

Diagnostic(source, message, text, startOffset, endOffset) ==
  [source |-> source, severity |-> "Error", message |-> message,
   range |-> [start |-> PositionAt(text, startOffset),
              end |-> PositionAt(text, endOffset + 1)]]

\* getLexDiagnostics(document, tokens): one diagnostic per token the lexer
\* could not classify, in token order.
GetLexDiagnostics(text, tokens) ==
  LET odd == SelectSeq(tokens, LAMBDA t : t.tokenType = "Unexpected") IN
  [i \in 1..Len(odd) |->
     Diagnostic("lexical", "unexpected character", text,
                odd[i].startOffset, odd[i].endOffset)]

\* getParseDiagnostics(document, errors): one diagnostic per parse error.
GetParseDiagnostics(text, errors) ==
  [i \in 1..Len(errors) |->
     Diagnostic("syntactic", errors[i].message, text,
                errors[i].startOffset, errors[i].endOffset)]

Batch(uri, diags) == [uri |-> uri, diagnostics |-> diags]

\* SmsLanguageServer.onContentChange spreading the parse diagnostics before
\* the lexical ones at line 68.
SmsOnContentChangeParseFirst(uri, text, parseResults) ==
  IF Len(text) = 0
  THEN [sent |-> <<Batch(uri, <<>>)>>, translated |-> FALSE]
  ELSE [sent |-> <<Batch(uri, GetParseDiagnostics(text, parseResults.errors)
                             \o GetLexDiagnostics(text, parseResults.tokens))>>,
        translated |-> TRUE]

\* SmsLanguageServer.onContentChange without the empty-text fast path.
SmsOnContentChangeNoFastPath(uri, text, parseResults) ==
  [sent |-> <<Batch(uri, GetLexDiagnostics(text, parseResults.tokens)
                           \o GetParseDiagnostics(text, parseResults.errors))>>,
   translated |-> TRUE]

\* SmsLanguageServer.onContentChange: the batches passed to sendDiagnostics
\* and whether the translators ran.
SmsOnContentChange(uri, text, parseResults) ==
  IF Len(text) = 0
  THEN [sent |-> <<Batch(uri, <<>>)>>, translated |-> FALSE]
  ELSE [sent |-> <<Batch(uri, GetLexDiagnostics(text, parseResults.tokens)
                             \o GetParseDiagnostics(text, parseResults.errors))>>,
        translated |-> TRUE]

\* TrigLanguageServer.onContentChange without the return that ends the
\* empty-text branch: the handler falls through to the second
\* sendDiagnostics call.
TrigOnContentChangeNoReturn(uri, text, parseResults) ==
  [sent |-> (IF Len(text) = 0 THEN <<Batch(uri, <<>>)>> ELSE <<>>)
             \o <<Batch(uri,
                        GetLexDiagnostics(text, parseResults.tokens)
                          \o GetParseDiagnostics(text, parseResults.errors))>>,
   translated |-> TRUE]

\* TrigLanguageServer.onContentChange
TrigOnContentChange(uri, text, parseResults) ==
  IF Len(text) = 0
  THEN [sent |-> <<Batch(uri, <<>>)>>, translated |-> FALSE]
  ELSE [sent |-> <<Batch(uri, GetLexDiagnostics(text, parseResults.tokens)
                             \o GetParseDiagnostics(text, parseResults.errors))>>,
        translated |-> TRUE]

(* --------------------------- dialect mode ----------------------------- *)

ModeStrings == {"stardog", "standard"}

\* What a client may send as initializationOptions: nothing, an object
\* without a mode, or an object with a mode string.
InitOptions ==
  {[present |-> FALSE, mode |-> "undefined"]}
    \cup {[present |-> TRUE, mode |-> m] :
            m \in {"undefined", "stardog", "standard", "turtle"}}

\* Lines 18-24 with an else branch that restores the default.
ValidatedModeOrDefault(options, mode) ==
  IF options.present /\ (options.mode = "stardog" \/ options.mode = "standard")
  THEN options.mode
  ELSE "standard"

\* Lines 18-24 taking whatever string the client sent.
ValidatedModeAnyString(options, mode) ==
  IF options.present /\ options.mode # "undefined"
  THEN options.mode
  ELSE mode

\* Lines 18-24: this.mode after onInitialization, given this.mode before.
ValidatedMode(options, mode) ==
  IF options.present /\ (options.mode = "stardog" \/ options.mode = "standard")
  THEN options.mode
  ELSE mode

(* ------------------------------- state -------------------------------- *)

VARIABLES
  server,       \* which server this process runs: "sms" or "trig"
  initialized,  \* the initialize request has been handled
  handlers,     \* request handlers wired on the connection
  mode,         \* TrigLanguageServer.mode
  documents,    \* this.documents: uri -> the open document's text
  parseState,   \* this.parseStateManager: uri -> {cst, tokens}
  parserInput,  \* this.parser.input of the TriG parser
  diagnostics,  \* the client's view: the last batch received per uri
  last,         \* what the last handler was given and what it did
  scan          \* input and output of the stand-alone completion scan

vars == <<server, initialized, handlers, mode, documents, parseState,
          parserInput, diagnostics, last, scan>>

Closed == [open |-> FALSE, text |-> <<>>]
Open(text) == [open |-> TRUE, text |-> text]

Absent == [present |-> FALSE, cst |-> Cst("none", <<>>), tokens |-> <<>>]
ParseState(cst, tokens) == [present |-> TRUE, cst |-> cst, tokens |-> tokens]

NoBatch == [known |-> FALSE, items |-> <<>>]
Received(diags) == [known |-> TRUE, items |-> diags]

NoOptions == [present |-> FALSE, mode |-> "undefined"]

NoCapabilities ==
  [textDocumentSync |-> "none", hoverProvider |-> FALSE,
   foldingRangeProvider |-> FALSE,
   completionProvider |-> [present |-> FALSE, triggerCharacters |-> <<>>]]

\* The record kept of a handler run; every handler fills in what it did.
Idle ==
  [op |-> "none", uri |-> "none", threw |-> FALSE, options |-> NoOptions,
   first |-> FALSE, cursorOffset |-> -1, parsed |-> <<>>, steps |-> NoSteps,
   response |-> Undefined, sent |-> <<>>, translated |-> FALSE,
   hadDiagnostics |-> FALSE, replaced |-> FALSE,
   capabilities |-> NoCapabilities]

NoScan == [tokens |-> <<>>, cursorOffset |-> 0, done |-> FALSE,
           steps |-> NoSteps]

\* The texts a change notification for a document may carry: any text when
\* the document is being opened, the text after typing one character at the
\* end or deleting the last one when it is already open.
NewTexts(document, maxLen) ==
  IF ~document.open THEN TextsUpTo(maxLen)
  ELSE {Append(document.text, c) : c \in IF Len(document.text) < maxLen
                                         THEN Chars ELSE {}}
         \cup {SubSeq(document.text, 1, Len(document.text) - 1)}

\* The cursor positions a completion request may carry: every position of
\* the document's text and one beyond its last line.
CursorPositions(document) ==
  {PositionAt(document.text, o) : o \in 0..Len(document.text)}
    \cup {Position(Len(document.text) + 1, 0)}

\* Construction: nothing open, nothing cached, the mode at its initializer
\* (TrigLanguageServer.ts line 11).
InitServer ==
  /\ initialized = FALSE
  /\ handlers = {}
  /\ mode = "standard"
  /\ documents = [u \in URIs |-> Closed]
  /\ parseState = [u \in URIs |-> Absent]
  /\ parserInput = <<>>
  /\ diagnostics = [u \in URIs |-> NoBatch]
  /\ last = Idle

Init ==
  /\ server \in {"sms", "trig"}
  /\ InitServer
  /\ scan = NoScan

(* ------------------------ the parse-state cache ----------------------- *)

\* parseStateManager.getParseStateForUri(uri)
GetParseStateForUri(state, uri) == state[uri]

\* saveParseStateForUri merging into an existing entry: the new tokens are
\* stored beside the cst the entry already had.
SaveParseStateKeepCst(state, uri, cst, tokens) ==
  [state EXCEPT ![uri] = ParseState(IF state[uri].present THEN state[uri].cst
                                    ELSE cst,
                                    tokens)]

\* saveParseStateForUri as a write-once store: an existing entry is kept.
SaveParseStateIfAbsent(state, uri, cst, tokens) ==
  IF state[uri].present THEN state
  ELSE [state EXCEPT ![uri] = ParseState(cst, tokens)]

\* parseStateManager.saveParseStateForUri(uri, {cst, tokens})
SaveParseStateForUri(state, uri, cst, tokens) ==
  [state EXCEPT ![uri] = ParseState(cst, tokens)]

\* the cache's invalidate(uri)
ClearParseStateForUri(state, uri) == [state EXCEPT ![uri] = Absent]

(* ---------------------------- parseDocument --------------------------- *)

ParseCall(text, parseMode) == [text |-> text, mode |-> parseMode]

\* AbstractLanguageServer.parseDocument as the SMS server inherits it: one
\* call of parser.parse on the document's text.
SmsParseDocument(text) ==
  LET r == SmsParse(text) IN
  [cst |-> r.cst, tokens |-> r.tokens, errors |-> r.errors,
   calls |-> <<ParseCall(text, "none")>>, input |-> r.tokens]

\* Lines 63-80 calling parser.parse(content) without this.mode, as the
\* inherited parseDocument does: the parser falls back to its default mode.
TrigParseDocumentDefaultMode(text, sessionMode) ==
  LET r == TrigParse(text, "standard")
      input == r.tokens
  IN [cst |-> r.cst, tokens |-> input, errors |-> r.errors,
      calls |-> <<ParseCall(text, "standard")>>, input |-> input]

\* Lines 63-80 reading this.parser.input before the call of parser.parse:
\* the tokens returned are those the shared parser kept from its last parse.
TrigParseDocumentStaleInput(text, sessionMode) ==
  LET input == parserInput
      r == TrigParse(text, sessionMode)
  IN [cst |-> r.cst, tokens |-> input, errors |-> r.errors,
      calls |-> <<ParseCall(text, sessionMode)>>, input |-> r.tokens]

\* TrigLanguageServer.parseDocument: parser.parse(content, this.mode), then
\* tokens = this.parser.input.
TrigParseDocument(text, sessionMode) ==
  LET r == TrigParse(text, sessionMode)
      input == r.tokens
  IN [cst |-> r.cst, tokens |-> input, errors |-> r.errors,
      calls |-> <<ParseCall(text, sessionMode)>>, input |-> input]

(* ------------------------------ handlers ------------------------------ *)

\* The handler the base class wires when it handles the initialize request,
\* before it calls the server's onInitialization.
BaseWiredHandlers == {"hover"}

\* Lines 29-32 without the onFoldingRanges registration.
SmsWiredHandlersCompletionOnly == {"completion"}

\* Lines 29-32: connection.onCompletion and connection.onFoldingRanges.
SmsWiredHandlers == {"completion", "foldingRanges"}

\* Lines 34-44: the capabilities the SMS server returns.
SmsCapabilities ==
  [textDocumentSync |-> "syncKind[0]",
   hoverProvider |-> TRUE,
   foldingRangeProvider |-> TRUE,
   completionProvider |->
     [present |-> TRUE, triggerCharacters |-> <<"<", ":", "?", "$">>]]

\* TrigLanguageServer.ts lines 26-32: the capabilities the TriG server
\* returns.
TrigCapabilities ==
  [textDocumentSync |-> "syncKind[0]",
   hoverProvider |-> TRUE,
   foldingRangeProvider |-> FALSE,
   completionProvider |-> [present |-> FALSE, triggerCharacters |-> <<>>]]

\* SmsLanguageServer.onInitialization: wires the completion and folding
\* handlers on the connection (lines 29-32).
SmsOnInitialization ==
  /\ server = "sms"
  /\ initialized' = TRUE
  /\ handlers' = handlers \cup BaseWiredHandlers \cup SmsWiredHandlers
  /\ last' = [Idle EXCEPT !.op = "onInitialization", !.first = ~initialized,
                          !.capabilities = SmsCapabilities]
  /\ UNCHANGED <<server, mode, documents, parseState, parserInput,
                 diagnostics, scan>>

\* TrigLanguageServer.onInitialization
TrigOnInitialization(options) ==
  /\ server = "trig"
  /\ initialized' = TRUE
  /\ handlers' = handlers \cup BaseWiredHandlers
  /\ mode' = ValidatedMode(options, mode)
  /\ last' = [Idle EXCEPT !.op = "onInitialization", !.options = options,
                          !.first = ~initialized,
                          !.capabilities = TrigCapabilities]
  /\ UNCHANGED <<server, documents, parseState, parserInput, diagnostics,
                 scan>>

\* An open or change notification for uri carrying the full new text: the
\* document store takes the text, then handleContentChange parses it, saves
\* {cst, tokens} for the uri and calls the server's onContentChange.
HandleContentChange(uri, text) ==
  /\ initialized
  /\ documents' = [documents EXCEPT ![uri] = Open(text)]
  /\ \E parseResults \in {IF server = "sms" THEN SmsParseDocument(text)
                          ELSE TrigParseDocument(text, mode)} :
       \E out \in {IF server = "sms"
                   THEN SmsOnContentChange(uri, text, parseResults)
                   ELSE TrigOnContentChange(uri, text, parseResults)} :
         /\ parseState' = SaveParseStateForUri(parseState, uri,
                                               parseResults.cst,
                                               parseResults.tokens)
         /\ parserInput' = IF server = "trig" THEN parseResults.input
                           ELSE parserInput
         /\ diagnostics' =
              [u \in URIs |->
                 LET got == SelectSeq(out.sent, LAMBDA b : b.uri = u) IN
                 IF got = <<>> THEN diagnostics[u]
                 ELSE Received(got[Len(got)].diagnostics)]
         /\ last' = [Idle EXCEPT !.op = "handleContentChange", !.uri = uri,
                                 !.parsed = parseResults.calls,
                                 !.sent = out.sent,
                                 !.translated = out.translated,
                                 !.hadDiagnostics =
                                   diagnostics[uri].items # <<>>,
                                 !.replaced = parseState[uri].present]
  /\ UNCHANGED <<server, initialized, handlers, mode, scan>>

\* A close notification: the document leaves the store and its cache entry
\* is discarded.
HandleDocumentClose(uri) ==
  /\ initialized
  /\ documents[uri].open
  /\ documents' = [documents EXCEPT ![uri] = Closed]
  /\ parseState' = ClearParseStateForUri(parseState, uri)
  /\ last' = [Idle EXCEPT !.op = "handleDocumentClose", !.uri = uri]
  /\ UNCHANGED <<server, initialized, handlers, mode, parserInput,
                 diagnostics, scan>>

\* The cache's invalidate(uri) on its own: the entry is absent until the
\* next parse of the document.
Invalidate(uri) ==
  /\ server = "sms"
  /\ parseState[uri].present
  /\ parseState' = ClearParseStateForUri(parseState, uri)
  /\ last' = [Idle EXCEPT !.op = "invalidate", !.uri = uri]
  /\ UNCHANGED <<server, initialized, handlers, mode, documents,
                 parserInput, diagnostics, scan>>

\* Line 78 re-parsing on every request.
NeedsParseAlways(cached) == TRUE

\* Line 78: if (!tokens), with tokens destructured from the cache entry.
NeedsParse(cached) == ~cached.present

\* Lines 78-82 with the save moved after the if: an entry is written on
\* every request, and on a cache hit its cst is the undefined one.
CacheAfterCompletionSaveAlways(state, uri, cached, parseResults) ==
  SaveParseStateForUri(state, uri,
                       IF NeedsParse(cached) THEN parseResults.cst
                       ELSE Cst("none", <<>>),
                       parseResults.tokens)

\* Lines 78-82: the cache after the request; an entry is saved only inside
\* the if, from the parse made there.
CacheAfterCompletion(state, uri, cached, parseResults) ==
  IF NeedsParse(cached)
  THEN SaveParseStateForUri(state, uri, parseResults.cst, parseResults.tokens)
  ELSE state

\* SmsLanguageServer.handleCompletion(params)
HandleCompletion(uri, position) ==
  /\ server = "sms"
  /\ "completion" \in handlers
  /\ IF ~documents[uri].open
     THEN \* documents.get(uri) is undefined: document.offsetAt throws
          /\ last' = [Idle EXCEPT !.op = "handleCompletion", !.uri = uri,
                                  !.threw = TRUE]
          /\ UNCHANGED parseState
     ELSE \E text \in {documents[uri].text},
             cached \in {GetParseStateForUri(parseState, uri)} :
          \E cursorOffset \in {OffsetAt(text, position)},
             parseResults \in {IF NeedsParse(cached)
                               THEN SmsParseDocument(text)
                               ELSE cached} :
          \E steps \in {CompletionSteps(parseResults.tokens, cursorOffset)} :
             /\ parseState' = CacheAfterCompletion(parseState, uri, cached,
                                                   parseResults)
             /\ last' =
                  [Idle EXCEPT
                     !.op = "handleCompletion", !.uri = uri,
                     !.cursorOffset = cursorOffset,
                     !.parsed = IF NeedsParse(cached)
                                THEN parseResults.calls
                                ELSE <<>>,
                     !.steps = steps,
                     !.response =
                       IF steps.returned = "item"
                       THEN Items(<<BasicSMS2MappingItem(text, cursorOffset)>>)
                       ELSE Undefined]
  /\ UNCHANGED <<server, initialized, handlers, mode, documents,
                 parserInput, diagnostics, scan>>

\* "u1" of the SMS server is the document under edit; every other document
\* is a short one.
DocBound(uri) ==
  IF server = "sms" /\ uri = "u1" THEN MaxDocLen ELSE MaxShortLen

Next ==
  \/ SmsOnInitialization
  \/ \E options \in InitOptions : TrigOnInitialization(options)
  \/ \E uri \in URIs : \E text \in NewTexts(documents[uri], DocBound(uri)) :
       HandleContentChange(uri, text)
  \/ \E uri \in URIs : HandleDocumentClose(uri)
  \/ \E uri \in URIs : Invalidate(uri)
  \/ \E uri \in URIs : \E position \in CursorPositions(documents[uri]) :
       HandleCompletion(uri, position)

Spec == Init /\ [][Next]_vars


(* ------------------- the stand-alone completion scan ------------------ *)

ScanTypes == {"Mapping", "Semicolon", "Unexpected"}

\* Every token sequence with strictly increasing, non-overlapping offset
\* spans inside from..MaxLen - 1.
RECURSIVE TokenSeqsFrom(_)
TokenSeqsFrom(from) ==
  {<<>>} \cup
  UNION {UNION {{<<Token(ty, s, e)>> \o rest :
                   ty \in ScanTypes, rest \in TokenSeqsFrom(e + 1)} :
                e \in s..(MaxLen - 1)} :
         s \in from..(MaxLen - 1)}

InitScan ==
  /\ server = "sms"
  /\ InitServer
  /\ scan \in {[tokens |-> t, cursorOffset |-> c, done |-> FALSE,
                steps |-> NoSteps] :
                 t \in TokenSeqsFrom(0), c \in 0..MaxLen}

\* Lines 84-118 applied to the drawn token array and cursor offset.
ScanStep ==
  /\ ~scan.done
  /\ scan' = [scan EXCEPT !.done = TRUE,
                          !.steps = CompletionSteps(scan.tokens,
                                                    scan.cursorOffset)]
  /\ UNCHANGED <<server, initialized, handlers, mode, documents, parseState,
                 parserInput, diagnostics, last>>

NextScan == ScanStep

SpecScan == InitScan /\ [][NextScan]_vars

(* ===================== the completion scan (C1-C3) ==================== *)

\* JavaScript indexes of the tokens of T with endOffset + 1 < C.
Qualifying(T, C) == {i \in 0..(Len(T) - 1) : T[i + 1].endOffset + 1 < C}

\* C lies strictly inside the span of a token of more than one character.
StrictlyInside(T, C) ==
  \E i \in 1..Len(T) :
    /\ T[i].startOffset < C
    /\ C < T[i].endOffset
    /\ T[i].startOffset # T[i].endOffset

\* C is a token's startOffset or the offset just past its last character.
AtBoundary(T, C) ==
  \E i \in 1..Len(T) : C = T[i].startOffset \/ C = T[i].endOffset + 1

\* C1: for every ascending, non-overlapping token sequence and every cursor
\* offset, the backward scan yields the index of the one token with the
\* greatest endOffset among those with endOffset + 1 < C, and yields -1
\* exactly when no token qualifies.
C1_ScanSelectsLastQualifying ==
  scan.done =>
    LET T == scan.tokens
        Q == Qualifying(T, scan.cursorOffset)
        r == scan.steps.tokenIndexBeforeCursor
    IN /\ (r = -1) <=> (Q = {})
       /\ Q # {} =>
            /\ r \in Q
            /\ \A j \in Q \ {r} : T[j + 1].endOffset < T[r + 1].endOffset

\* Several tokens qualify, a later one does not, and the scan has run.
C1_Witness ==
  /\ scan.done
  /\ Cardinality(Qualifying(scan.tokens, scan.cursorOffset)) >= 2
  /\ scan.steps.tokenIndexBeforeCursor < Len(scan.tokens) - 1

\* C2: when the cursor lies strictly inside a token of more than one
\* character, the handler returns nothing (undefined, no list) and returns
\* before the content-assist query.
C2_InsideTokenReturnsNothing ==
  (scan.done /\ StrictlyInside(scan.tokens, scan.cursorOffset)) =>
    /\ scan.steps.isCursorInToken
    /\ ~scan.steps.assistCalled
    /\ scan.steps.returned = "undefined"

\* The cursor is strictly inside a token that follows another token.
C2_Witness ==
  /\ scan.done
  /\ StrictlyInside(scan.tokens, scan.cursorOffset)
  /\ scan.steps.tokenIndexBeforeCursor >= 0
  /\ scan.steps.isCursorInToken

\* C3: when the cursor is exactly at a token boundary and not strictly
\* inside any token, the handler proceeds to the content-assist query.
C3_BoundaryProceeds ==
  (/\ scan.done
   /\ AtBoundary(scan.tokens, scan.cursorOffset)
   /\ ~StrictlyInside(scan.tokens, scan.cursorOffset)) =>
    /\ ~scan.steps.isCursorInToken
    /\ scan.steps.assistCalled

(* ===================== handleCompletion (C4-C7) ====================== *)

Completed == last.op = "handleCompletion" /\ ~last.threw

\* The text edit of the emitted item.
EmittedRange == last.response.items[1].textEdit.range

\* C4: a completion request for a uri whose document cannot be found does
\* not throw and yields no candidates.
C4_MissingDocumentDoesNotThrow ==
  (last.op = "handleCompletion" /\ ~documents[last.uri].open) =>
    /\ ~last.threw
    /\ last.response.items = <<>>

\* C5 as stated: whenever an item is emitted, for every cursor offset C,
\* C = 0 included, the edit is a zero-width range at the position of
\* offset C - 1.
C5_EditAtCursorMinusOne ==
  (Completed /\ last.response.defined) =>
    /\ EmittedRange.start = EmittedRange.end
    /\ OffsetAt(documents[last.uri].text, EmittedRange.start)
         = last.cursorOffset - 1

\* C5 as amended: whenever an item is emitted, the edit is a zero-width
\* range, so it deletes no character; it sits at the position of offset
\* C - 1 when C >= 1 and at offset 0, the cursor itself, when C = 0.
C5_EditZeroWidthAtClampedOffset ==
  (Completed /\ last.response.defined) =>
    /\ EmittedRange.start = EmittedRange.end
    /\ OffsetAt(documents[last.uri].text, EmittedRange.start)
         = Max(last.cursorOffset - 1, 0)

\* An item emitted with the cursor on the second line of the document.
C5_Witness ==
  /\ Completed
  /\ last.response.defined
  /\ last.cursorOffset = 2
  /\ EmittedRange.start.line = 1

\* C6: when the cursor is not inside a token, exactly one item is emitted
\* if the continuation set contains 'Mapping' and none otherwise; every
\* response holds zero or one items.
C6_OneItemIffMappingExpected ==
  Completed =>
    /\ Len(last.response.items) <= 1
    /\ ~last.steps.isCursorInToken =>
         /\ last.steps.assistCalled
         /\ IF [nextTokenType |-> "Mapping"] \in last.steps.completions
            THEN last.response.defined /\ Len(last.response.items) = 1
            ELSE last.response = Undefined

\* The query ran on a non-empty prefix, found continuations without
\* 'Mapping', and nothing was emitted.
C6_Witness ==
  /\ Completed
  /\ last.steps.assistCalled
  /\ last.steps.prefix # <<>>
  /\ last.steps.completions = {[nextTokenType |-> "Semicolon"]}
  /\ last.response = Undefined

\* C7: handleCompletion calls the parser exactly when the cache holds no
\* tokens for the uri: with a cached entry it makes no parse call, without
\* one it parses the document's text once and stores that parse's
\* {cst, tokens} for the uri.
C7_ParsesIffNotCached ==
  [][(last'.op = "handleCompletion" /\ ~last'.threw) =>
       IF parseState[last'.uri].present
       THEN last'.parsed = <<>>
       ELSE /\ Len(last'.parsed) = 1
            /\ last'.parsed[1].text = documents[last'.uri].text
            /\ parseState'[last'.uri] =
                 ParseState(SmsParse(documents[last'.uri].text).cst,
                            SmsParse(documents[last'.uri].text).tokens)]_vars

\* A completion request that found no cached tokens and parsed a document
\* that has tokens.
C7_Witness ==
  /\ Completed
  /\ Len(last.parsed) = 1
  /\ parseState[last.uri].present
  /\ parseState[last.uri].tokens # <<>>

(* ================= diagnostics on empty text (C8) ==================== *)

\* C8: a content change whose document text is empty sends the empty batch
\* for the uri, whatever the client held before and whatever the parse
\* produced, and does not run the translators.
C8_EmptyTextClearsDiagnostics ==
  (last.op = "handleContentChange" /\ documents[last.uri].text = <<>>) =>
    /\ last.sent = <<Batch(last.uri, <<>>)>>
    /\ ~last.translated
    /\ diagnostics[last.uri] = Received(<<>>)

\* The SMS server emptied a document that had diagnostics; the parse of
\* the empty text reports an error.
C8_Witness ==
  /\ server = "sms"
  /\ last.op = "handleContentChange"
  /\ documents[last.uri].text = <<>>
  /\ last.hadDiagnostics
  /\ SmsParse(<<>>).errors # <<>>
  /\ last.sent = <<Batch(last.uri, <<>>)>>

(* ========================= dialect mode (C9-C10) ===================== *)

ValidOption(options) == options.present /\ options.mode \in ModeStrings

\* C9: after the initialization of the TriG session the mode is the
\* option's mode when that is 'stardog' or 'standard' and the default
\* 'standard' when the option is missing or anything else; initialization
\* does not fail.
C9_ModeFromOptionOrDefault ==
  (server = "trig" /\ last.op = "onInitialization" /\ last.first) =>
    /\ initialized
    /\ ~last.threw
    /\ mode = IF ValidOption(last.options) THEN last.options.mode
              ELSE "standard"

\* The session was initialized with a mode string outside the enumeration.
C9_Witness ==
  /\ server = "trig"
  /\ last.op = "onInitialization"
  /\ last.first
  /\ last.options.present
  /\ last.options.mode = "turtle"
  /\ mode = "standard"

\* C10: once the session is initialized, no later event changes the mode,
\* a further initialization call with a missing or invalid option included.
C10_ModeFixedAfterInitialization ==
  [][(initialized
        /\ ~(last'.op = "onInitialization" /\ ValidOption(last'.options)))
       => mode' = mode]_vars

\* A session set to 'stardog' received a further initialization call with
\* an invalid option and still is in 'stardog' mode.
C10_Witness ==
  /\ server = "trig"
  /\ last.op = "onInitialization"
  /\ ~last.first
  /\ ~ValidOption(last.options)
  /\ mode = "stardog"

(* ===================== TriG parse invocation (C11) =================== *)

TrigChanged == server = "trig" /\ last.op = "handleContentChange"

\* C11: every parseDocument call of the TriG server hands the parser the
\* document's full current text together with the session's mode, so the
\* tokens it yields are those of that text in that mode.
C11_ParsePassesSessionMode ==
  TrigChanged =>
    /\ last.parsed = <<ParseCall(documents[last.uri].text, mode)>>
    /\ parseState[last.uri].tokens = TrigLex(documents[last.uri].text, mode)

\* A 'stardog' session parsed a text with a dialect-specific character and
\* got the token a 'standard' session would not get.
C11_Witness ==
  /\ TrigChanged
  /\ mode = "stardog"
  /\ documents[last.uri].text = <<"?">>
  /\ last.parsed[1].mode = "stardog"
  /\ parseState[last.uri].tokens # TrigLex(<<"?">>, "standard")

(* ================ diagnostics on non-empty text (C12) ================ *)

Changed == last.op = "handleContentChange"

\* What the parse of the changed document's text yields in this session.
ChangedParse ==
  IF server = "sms" THEN SmsParse(documents[last.uri].text)
  ELSE TrigParse(documents[last.uri].text, mode)

\* C12: a content change on a non-empty document sends one batch: every
\* lexical diagnostic, then every syntactic one, none of the second kind
\* before one of the first; a text without lexical and syntactic errors
\* yields the empty batch, which replaces what the client held.
C12_LexicalThenSyntactic ==
  (Changed /\ documents[last.uri].text # <<>>) =>
    /\ Len(last.sent) = 1
    /\ LET d == last.sent[1].diagnostics
           text == documents[last.uri].text
           odd == {i \in 1..Len(ChangedParse.tokens) :
                     ChangedParse.tokens[i].tokenType = "Unexpected"}
           nLex == Cardinality(odd)
           nSyn == Len(ChangedParse.errors)
       IN /\ Len(d) = nLex + nSyn
          /\ \A i \in 1..Len(d) :
               d[i].source = IF i <= nLex THEN "lexical" ELSE "syntactic"
          /\ \A i \in 1..nSyn :
               /\ d[nLex + i].message = ChangedParse.errors[i].message
               /\ d[nLex + i].range.start
                    = PositionAt(text, ChangedParse.errors[i].startOffset)
          /\ (nLex = 0 /\ nSyn = 0) =>
               /\ d = <<>>
               /\ diagnostics[last.uri] = Received(<<>>)

\* A changed text with a lexical and a syntactic error: the batch holds
\* both, the lexical one first.
C12_Witness ==
  /\ Changed
  /\ documents[last.uri].text # <<>>
  /\ Len(last.sent) = 1
  /\ Len(last.sent[1].diagnostics) = 2
  /\ last.sent[1].diagnostics[1].source = "lexical"
  /\ last.sent[1].diagnostics[2].source = "syntactic"

(* ================== cache follows the document (C13) ================= *)

\* C13: after any sequence of open, change, close and completion events the
\* cache entry of a uri holds the tokens of that document's current text,
\* and a completion request computes its cursor/token alignment on them.
C13_CacheHoldsCurrentTokens ==
  server = "sms" =>
    /\ \A u \in URIs :
         parseState[u].present =>
           /\ documents[u].open
           /\ parseState[u].tokens = SmsLex(documents[u].text)
    /\ Completed =>
         /\ parseState[last.uri].present
         /\ last.steps = CompletionSteps(SmsLex(documents[last.uri].text),
                                         last.cursorOffset)

\* A completion request served from the cache, on a document with tokens,
\* that selected a token before the cursor.
C13_Witness ==
  /\ Completed
  /\ last.parsed = <<>>
  /\ parseState[last.uri].tokens # <<>>
  /\ last.steps.tokenIndexBeforeCursor >= 0

(* ================== one parse per cache entry (C14) ================== *)

\* The syntax tree a parse of this session builds over a token array.
CstOver(tokens) ==
  Cst(IF server = "sms" THEN "MappingDoc" ELSE "trigDoc", tokens)

\* C14: the cache holds at most one entry per uri (it is keyed by uri), and
\* the cst and the tokens of an entry come from one and the same parse, also
\* after a save has replaced an earlier entry.
C14_EntryFromOneParse ==
  /\ DOMAIN parseState = URIs
  /\ \A u \in URIs :
       parseState[u].present =>
         parseState[u].cst = CstOver(parseState[u].tokens)

\* A change whose save replaced an entry with other tokens in it.
C14_Witness ==
  /\ Changed
  /\ last.replaced
  /\ parseState[last.uri].tokens # <<>>
  /\ parseState[last.uri].cst = CstOver(parseState[last.uri].tokens)

(* =================== advertised capabilities (C15) =================== *)

C16_PrefixIsQualifyingTokens ==
  scan.done =>
    LET T == scan.tokens
        Q == Qualifying(T, scan.cursorOffset)
        r == scan.steps.tokenIndexBeforeCursor
        prefix == scan.steps.prefix
    IN /\ scan.steps.assistCalled =>
            /\ Len(prefix) = r + 1
            /\ \A i \in 1..Len(prefix) : prefix[i] = T[i]
            /\ Q = {i - 1 : i \in 1..Len(prefix)}
            /\ (r = -1) => prefix = <<>>
       /\ T = <<>> => (scan.steps.assistCalled /\ prefix = <<>>)

\* The query ran on a non-empty prefix that leaves out a later token.
C16_Witness ==
  /\ scan.done
  /\ scan.steps.assistCalled
  /\ Len(scan.steps.prefix) >= 2
  /\ Len(scan.steps.prefix) < Len(scan.tokens)

(* ================= one batch per content change (C17) ================= *)

\* C17: a content change sends exactly one diagnostics batch, whether the
\* text is empty or not; the batch is addressed to the changed document's
\* URI, no batch goes to another URI, and it is what the client then holds
\* for that URI.
C17_OneBatchToChangedUri ==
  Changed =>
    /\ Len(last.sent) = 1
    /\ \A i \in 1..Len(last.sent) : last.sent[i].uri = last.uri
    /\ diagnostics[last.uri] = Received(last.sent[1].diagnostics)

\* A document was changed to the empty text while the client holds
\* diagnostics of an earlier, non-empty change of the other document.
C17_Witness ==
  /\ Changed
  /\ documents[last.uri].text = <<>>
  /\ Len(last.sent) = 1
  /\ \E u \in URIs \ {last.uri} : diagnostics[u].items # <<>>

(* ================ frame of a completion request (C18) ================= *)

\* C18: a completion request sends no diagnostics and leaves what the
\* client holds untouched; when the cache holds an entry for the request's
\* URI the whole cache is unchanged, whichever way the handler returns, and
\* the entries of all other URIs are unchanged in every case.
C18_CompletionFrame ==
  [][last'.op = "handleCompletion" =>
       /\ last'.sent = <<>>
       /\ diagnostics' = diagnostics
       /\ parseState[last'.uri].present => parseState' = parseState
       /\ \A u \in URIs \ {last'.uri} : parseState'[u] = parseState[u]]_vars

\* A request served from the cache returned the one item while the other
\* document has a cache entry and diagnostics of its own.
C18_Witness ==
  /\ Completed
  /\ last.parsed = <<>>
  /\ last.steps.returned = "item"
  /\ parseState[last.uri].present
  /\ \E u \in URIs \ {last.uri} :
       parseState[u].present /\ diagnostics[u].items # <<>>

(* ============== the shared TriG parser's input (C19) ================== *)

\* C19: with handlers run one after the other, the tokens the TriG
\* parseDocument returns for a document are the parser's input as that very
\* parse left it: the token stream of the document's current text, not the
\* one a parse of another document or of an earlier text left in the shared
\* parser.
C19_TokensOfSameParse ==
  TrigChanged =>
    LET returned == parseState[last.uri].tokens
        own == TrigParse(documents[last.uri].text, mode).tokens
    IN /\ returned = parserInput
       /\ parserInput = own
       /\ \A u \in URIs \ {last.uri} :
            (parseState[u].present /\ parseState[u].tokens # own)
              => returned # parseState[u].tokens

\* The shared parser has parsed both documents, the changed one for the
\* second time, and the two documents' token streams differ.
C19_Witness ==
  /\ TrigChanged
  /\ last.replaced
  /\ parseState[last.uri].tokens # <<>>
  /\ \E u \in URIs \ {last.uri} :
       /\ parseState[u].present
       /\ parseState[u].tokens # <<>>
       /\ parseState[u].tokens # parseState[last.uri].tokens

====
